---- MODULE Spec2Model ----
(***************************************************************************)
(* Model of tools/github-issues/issue_wizard.py: the LabelRegistry (label  *)
(* loading, classification, category queries) and the IssueWizard (the     *)
(* fixed prompt sequence, body authoring and submission).                  *)
(*                                                                         *)
(* A Python str is modelled as a sequence of one-character strings, so     *)
(* that strip, lower, startswith, "in", split and int are computed the way *)
(* Python computes them.                                                   *)
(***************************************************************************)
EXTENDS Integers, Sequences, FiniteSets, TLC

(***************************************************************************)
(* Bounds of the model.                                                    *)
(***************************************************************************)
\* longest label source (number of JSON array elements) of SpecRegistry
MaxLabels == 3
\* longest label source of Spec: a prefix of WizardFixture
MaxWizardLabels == 9

(***************************************************************************)
(* Python str operations.                                                  *)
(***************************************************************************)
Upper == <<"A","B","C","D","E","F","G","H","I","J","K","L","M",
           "N","O","P","Q","R","S","T","U","V","W","X","Y","Z">>
Lower == <<"a","b","c","d","e","f","g","h","i","j","k","l","m",
           "n","o","p","q","r","s","t","u","v","w","x","y","z">>
Digits == <<"0","1","2","3","4","5","6","7","8","9">>

\* str.isspace for one character
IsSpace(c) == c \in {" ", "\t", "\n", "\r"}

IsDigit(c) == \E i \in 1..Len(Digits) : Digits[i] = c

DigitValue(c) == (CHOOSE i \in 1..Len(Digits) : Digits[i] = c) - 1

LowerChar(c) ==
    IF \E i \in 1..Len(Upper) : Upper[i] = c
    THEN Lower[CHOOSE i \in 1..Len(Upper) : Upper[i] = c]
    ELSE c

\* str.lower()
lower(s) == [i \in 1..Len(s) |-> LowerChar(s[i])]

\* str.startswith(prefix)
startswith(s, prefix) ==
    /\ Len(prefix) <= Len(s)
    /\ SubSeq(s, 1, Len(prefix)) = prefix

\* sub in s
contains(s, sub) ==
    \E i \in 1..(Len(s) - Len(sub) + 1) : SubSeq(s, i, i + Len(sub) - 1) = sub

RECURSIVE lstrip(_)
lstrip(s) ==
    IF s # <<>> /\ IsSpace(Head(s)) THEN lstrip(Tail(s)) ELSE s

RECURSIVE rstrip(_)
rstrip(s) ==
    IF s # <<>> /\ IsSpace(s[Len(s)]) THEN rstrip(SubSeq(s, 1, Len(s) - 1)) ELSE s

\* str.strip()
strip(s) == rstrip(lstrip(s))

\* str.split(","): the sequence of the pieces between the commas
RECURSIVE split(_)
split(s) ==
    IF \E i \in 1..Len(s) : s[i] = ","
    THEN LET i == CHOOSE k \in 1..Len(s) :
                     s[k] = "," /\ \A j \in 1..(k - 1) : s[j] # ","
         IN  <<SubSeq(s, 1, i - 1)>> \o split(SubSeq(s, i + 1, Len(s)))
    ELSE <<s>>

\* the digits of an int literal: single underscores may separate digits
IsDigitBody(d) ==
    /\ d # <<>>
    /\ IsDigit(d[1])
    /\ IsDigit(d[Len(d)])
    /\ \A i \in 1..Len(d) : IsDigit(d[i]) \/ d[i] = "_"
    /\ \A i \in 1..(Len(d) - 1) : ~(d[i] = "_" /\ d[i + 1] = "_")

RECURSIVE DigitsValue(_)
DigitsValue(d) ==
    IF d = <<>> THEN 0
    ELSE IF d[Len(d)] = "_" THEN DigitsValue(SubSeq(d, 1, Len(d) - 1))
    ELSE DigitsValue(SubSeq(d, 1, Len(d) - 1)) * 10 + DigitValue(d[Len(d)])

IsSign(c) == c \in {"+", "-"}

Unsigned(t) == IF t # <<>> /\ IsSign(t[1]) THEN Tail(t) ELSE t

\* int(s) does not raise ValueError
int_ok(s) == IsDigitBody(Unsigned(strip(s)))

\* int(s), where int_ok(s)
int(s) ==
    LET t == strip(s)
    IN  IF t # <<>> /\ t[1] = "-"
        THEN 0 - DigitsValue(Unsigned(t))
        ELSE DigitsValue(Unsigned(t))

(***************************************************************************)
(* class LabelCategory(Enum): the enumeration's values.                    *)
(***************************************************************************)
TYPE == "type"
AREA == "area"
PRIORITY == "priority"
SIZE == "size"
FLAG == "flag"

LabelCategory == {TYPE, AREA, PRIORITY, SIZE, FLAG}

(***************************************************************************)
(* The literals of _classify_label.                                        *)
(***************************************************************************)
LspPrefix == <<"l","s","p","/">>
SizePrefix == <<"s","i","z","e","/">>
PPrefix == <<"P">>
PrioritySubstrings ==
    { <<"-","c","r","i","t","i","c","a","l">>,
      <<"-","m","u","s","t">>,
      <<"-","s","h","o","u","l","d">>,
      <<"-","n","i","c","e">> }
TypeNames ==
    { <<"b","u","g">>,
      <<"e","n","h","a","n","c","e","m","e","n","t">>,
      <<"d","o","c","u","m","e","n","t","a","t","i","o","n">>,
      <<"a","r","c","h","i","t","e","c","t","u","r","e">>,
      <<"t","e","c","h","-","d","e","b","t">> }

(***************************************************************************)
(* The label source: what open(json_path) and json.load(f) produce.        *)
(*   kind "missing"  open raises FileNotFoundError                         *)
(*   kind "invalid"  json.load raises json.JSONDecodeError                 *)
(*   kind "list"     a JSON array; elems are its elements                  *)
(*   kind "object"   a JSON object; iterating it yields its keys (str)     *)
(*   kind "number"   a JSON number, which is not iterable                  *)
(* An element is a dict (type "dict") holding the keys in `keys`, or a str *)
(* (type "str").  color and description are opaque.                        *)
(***************************************************************************)
AllKeys == {"name", "color", "description"}

Record(name, keys) ==
    [type |-> "dict", keys |-> keys, name |-> name,
     color |-> "c", description |-> "d"]

StrElem == [type |-> "str", keys |-> {}, name |-> <<>>,
            color |-> "", description |-> ""]

json_path == "github-labels.json"

\* item[key] raises: subscripting a str with a str is a TypeError, a dict
\* without the key a KeyError
subscript_raises(item, key) ==
    IF item.type # "dict" THEN "TypeError"
    ELSE IF key \notin item.keys THEN "KeyError"
    ELSE "none"

\* the chain of _classify_label: the category of a label name
MutCategoryNoCatchAll(name) ==
    IF startswith(name, LspPrefix) THEN AREA
    ELSE IF startswith(name, SizePrefix) THEN SIZE
    ELSE IF /\ startswith(name, PPrefix)
            /\ \E p \in PrioritySubstrings : contains(name, p) THEN PRIORITY
    ELSE IF name \in TypeNames THEN TYPE
    ELSE "none"

MutCategoryNoPrefixCheck(name) ==
    IF \E p \in PrioritySubstrings : contains(name, p) THEN PRIORITY
    ELSE IF startswith(name, LspPrefix) THEN AREA
    ELSE IF startswith(name, SizePrefix) THEN SIZE
    ELSE IF name \in TypeNames THEN TYPE
    ELSE FLAG

category_of(name) ==
    IF startswith(name, LspPrefix) THEN AREA
    ELSE IF startswith(name, SizePrefix) THEN SIZE
    ELSE IF /\ startswith(name, PPrefix)
            /\ \E p \in PrioritySubstrings : contains(name, p) THEN PRIORITY
    ELSE IF name \in TypeNames THEN TYPE
    ELSE FLAG

\* the exception _classify_label(item) raises, "none" when it returns:
\* item["name"] is evaluated first, then item["color"], item["description"]
classify_raises(item) ==
    IF subscript_raises(item, "name") # "none"
    THEN subscript_raises(item, "name")
    ELSE IF subscript_raises(item, "color") # "none"
    THEN subscript_raises(item, "color")
    ELSE subscript_raises(item, "description")

\* the Label _classify_label(item) returns
classify_label(item) ==
    [name |-> item.name, color |-> item.color,
     description |-> item.description, category |-> category_of(item.name)]

\* the loop of _load_labels over data: the labels appended to self.labels
\* and the exception that ended the loop ("none": the loop completed)
RECURSIVE load_loop(_, _)
load_loop(elems, acc) ==
    IF elems = <<>> THEN [labels |-> acc, raised |-> "none"]
    ELSE IF classify_raises(Head(elems)) # "none"
    THEN [labels |-> acc, raised |-> classify_raises(Head(elems))]
    ELSE load_loop(Tail(elems), Append(acc, classify_label(Head(elems))))

MutGetByCategoryReversed(ls, category) ==
    LET r == SelectSeq(ls, LAMBDA l : l.category = category)
    IN  [i \in 1..Len(r) |-> r[Len(r) + 1 - i]]

\* LabelRegistry.get_by_category
get_by_category(ls, category) ==
    SelectSeq(ls, LAMBDA l : l.category = category)


(***************************************************************************)
(* The prompt protocols of IssueWizard, as functions of the line read.     *)
(***************************************************************************)
\* what the user sees last: the text of the last status line printed, and
\* the path it names ("" when it names none)
Msg(text, path) == [text |-> text, path |-> path]

NoMsg == Msg("", "")

\* _select_single, one pass of its loop on the line user_input:
\* the new selected_labels, whether the loop breaks, the line printed
MutSelectSingleFreeText(options, selected, user_input) ==
    IF int_ok(user_input)
    THEN [selected_labels |-> Append(selected, user_input),
          done |-> TRUE, message |-> Msg("Selected", "")]
    ELSE [selected_labels |-> selected,
          done |-> FALSE, message |-> Msg("Invalid input, please enter a number.", "")]

MutSelectSingleAdvances(options, selected, user_input) ==
    IF ~int_ok(user_input)
    THEN [selected_labels |-> selected,
          done |-> FALSE, message |-> Msg("Invalid input, please enter a number.", "")]
    ELSE IF 1 <= int(user_input) /\ int(user_input) <= Len(options)
    THEN [selected_labels |-> Append(selected, options[int(user_input)].name),
          done |-> TRUE, message |-> Msg("Selected", "")]
    ELSE [selected_labels |-> selected,
          done |-> TRUE, message |-> Msg("Invalid input. Please enter a number between 1 and len(options).", "")]

MutSelectSingleOffByOne(options, selected, user_input) ==
    IF ~int_ok(user_input)
    THEN [selected_labels |-> selected,
          done |-> FALSE, message |-> Msg("Invalid input, please enter a number.", "")]
    ELSE IF 1 <= int(user_input) /\ int(user_input) < Len(options)
    THEN [selected_labels |-> Append(selected, options[int(user_input)].name),
          done |-> TRUE, message |-> Msg("Selected", "")]
    ELSE [selected_labels |-> selected,
          done |-> FALSE, message |-> Msg("Invalid input. Please enter a number between 1 and len(options).", "")]

select_single(options, selected, user_input) ==
    IF ~int_ok(user_input)
    THEN [selected_labels |-> selected,
          done |-> FALSE, message |-> Msg("Invalid input, please enter a number.", "")]
    ELSE IF 1 <= int(user_input) /\ int(user_input) <= Len(options)
    THEN [selected_labels |-> Append(selected, options[int(user_input)].name),
          done |-> TRUE, message |-> Msg("Selected", "")]
    ELSE [selected_labels |-> selected,
          done |-> FALSE, message |-> Msg("Invalid input. Please enter a number between 1 and len(options).", "")]

\* the loop "for idx in indices" of _select_multiple: the names of the
\* options the in-range indices choose, in the order of indices
RECURSIVE temp_selected(_, _)
temp_selected(options, indices) ==
    IF indices = <<>> THEN <<>>
    ELSE IF 1 <= Head(indices) /\ Head(indices) <= Len(options)
    THEN <<options[Head(indices)].name>> \o temp_selected(options, Tail(indices))
    ELSE temp_selected(options, Tail(indices))

\* _select_multiple, one pass of its loop on the line raw
MutSelectMultiplePartial(options, selected, raw) ==
    LET choices == strip(raw)
        tokens == split(choices)
    IN  IF choices = <<>>
        THEN [selected_labels |-> selected, done |-> TRUE, message |-> NoMsg]
        ELSE IF \E i \in 1..Len(tokens) : ~int_ok(strip(tokens[i]))
        THEN [selected_labels |-> selected, done |-> FALSE,
              message |-> Msg("Invalid format, use numbers separated by commas.", "")]
        ELSE LET indices == [i \in 1..Len(tokens) |-> int(strip(tokens[i]))]
                 valid == \A i \in 1..Len(indices) :
                              1 <= indices[i] /\ indices[i] <= Len(options)
             IN  IF valid
                 THEN [selected_labels |-> selected \o temp_selected(options, indices),
                       done |-> TRUE, message |-> Msg("Selected", "")]
                 ELSE [selected_labels |-> selected \o temp_selected(options, indices),
                       done |-> FALSE,
                       message |-> Msg("Invalid selection, try again.", "")]

\* the names of the options chosen, in the order of the menu
MutSelectMultipleMenuOrder(options, selected, raw) ==
    LET choices == strip(raw)
        tokens == split(choices)
    IN  IF choices = <<>>
        THEN [selected_labels |-> selected, done |-> TRUE, message |-> NoMsg]
        ELSE IF \E i \in 1..Len(tokens) : ~int_ok(strip(tokens[i]))
        THEN [selected_labels |-> selected, done |-> FALSE,
              message |-> Msg("Invalid format, use numbers separated by commas.", "")]
        ELSE LET indices == [i \in 1..Len(tokens) |-> int(strip(tokens[i]))]
                 valid == \A i \in 1..Len(indices) :
                              1 <= indices[i] /\ indices[i] <= Len(options)
                 chosen == SelectSeq([i \in 1..Len(options) |-> i],
                               LAMBDA k : \E i \in 1..Len(indices) : indices[i] = k)
             IN  IF valid
                 THEN [selected_labels |-> selected \o temp_selected(options, chosen),
                       done |-> TRUE, message |-> Msg("Selected", "")]
                 ELSE [selected_labels |-> selected, done |-> FALSE,
                       message |-> Msg("Invalid selection, try again.", "")]

\* the empty test made on the line as read, before strip()
MutSelectMultipleNoStrip(options, selected, raw) ==
    LET tokens == split(strip(raw))
    IN  IF raw = <<>>
        THEN [selected_labels |-> selected, done |-> TRUE, message |-> NoMsg]
        ELSE IF \E i \in 1..Len(tokens) : ~int_ok(strip(tokens[i]))
        THEN [selected_labels |-> selected, done |-> FALSE,
              message |-> Msg("Invalid format, use numbers separated by commas.", "")]
        ELSE LET indices == [i \in 1..Len(tokens) |-> int(strip(tokens[i]))]
                 valid == \A i \in 1..Len(indices) :
                              1 <= indices[i] /\ indices[i] <= Len(options)
             IN  IF valid
                 THEN [selected_labels |-> selected \o temp_selected(options, indices),
                       done |-> TRUE, message |-> Msg("Selected", "")]
                 ELSE [selected_labels |-> selected, done |-> FALSE,
                       message |-> Msg("Invalid selection, try again.", "")]

select_multiple(options, selected, raw) ==
    LET choices == strip(raw)
        tokens == split(choices)
    IN  IF choices = <<>>
        THEN [selected_labels |-> selected, done |-> TRUE, message |-> NoMsg]
        ELSE IF \E i \in 1..Len(tokens) : ~int_ok(strip(tokens[i]))
        THEN [selected_labels |-> selected, done |-> FALSE,
              message |-> Msg("Invalid format, use numbers separated by commas.", "")]
        ELSE LET indices == [i \in 1..Len(tokens) |-> int(strip(tokens[i]))]
                 valid == \A i \in 1..Len(indices) :
                              1 <= indices[i] /\ indices[i] <= Len(options)
             IN  IF valid
                 THEN [selected_labels |-> selected \o temp_selected(options, indices),
                       done |-> TRUE, message |-> Msg("Selected", "")]
                 ELSE [selected_labels |-> selected, done |-> FALSE,
                       message |-> Msg("Invalid selection, try again.", "")]

\* _confirm on the line read: input(...).lower().startswith("y")
confirm(answer) == startswith(lower(answer), <<"y">>)

\* the argument vector _submit builds
RECURSIVE label_args(_)
label_args(selected) ==
    IF selected = <<>> THEN <<>>
    ELSE <<<<"-","-","l","a","b","e","l">>, Head(selected)>>
             \o label_args(Tail(selected))

\* the names of a list without its repetitions, first occurrences kept
RECURSIVE without_repeats(_, _)
without_repeats(selected, seen) ==
    IF selected = <<>> THEN <<>>
    ELSE IF Head(selected) \in seen THEN without_repeats(Tail(selected), seen)
    ELSE <<Head(selected)>>
             \o without_repeats(Tail(selected), seen \cup {Head(selected)})

MutBuildCmdNoRepeats(the_title, the_body_file, selected) ==
    << <<"g","h">>, <<"i","s","s","u","e">>, <<"c","r","e","a","t","e">>,
       <<"-","-","t","i","t","l","e">>, the_title,
       <<"-","-","b","o","d","y","-","f","i","l","e">>, the_body_file >>
        \o label_args(without_repeats(selected, {}))

build_cmd(the_title, the_body_file, selected) ==
    << <<"g","h">>, <<"i","s","s","u","e">>, <<"c","r","e","a","t","e">>,
       <<"-","-","t","i","t","l","e">>, the_title,
       <<"-","-","b","o","d","y","-","f","i","l","e">>, the_body_file >>
        \o label_args(selected)

(***************************************************************************)
(* The inputs the model draws from.                                        *)
(***************************************************************************)
Bug == <<"b","u","g">>
TechDebt == <<"t","e","c","h","-","d","e","b","t">>
LspA == <<"l","s","p","/","a">>
LspB == <<"l","s","p","/","b">>
LspMust == <<"l","s","p","/","-","m","u","s","t">>
SizeS == <<"s","i","z","e","/","S">>
P1Must == <<"P","1","-","m","u","s","t">>
P1 == <<"P","1">>
XMust == <<"x","-","m","u","s","t">>
CapitalBug == <<"B","u","g">>
Help == <<"h","e","l","p">>
P2Nice == <<"P","2","-","n","i","c","e">>
SizeM == <<"s","i","z","e","/","M">>

SeqsUpTo(S, n) == UNION { [1..k -> S] : k \in 0..n }

\* label names of the registry specification: at least one per rule, and
\* names that meet only a part of a rule
RegistryNames == {Bug, CapitalBug, LspA, LspMust, SizeS, P1Must, P1, XMust}

\* JSON array elements: well-formed records, records lacking a field, a str
RegistryElems ==
    { Record(n, AllKeys) : n \in RegistryNames }
        \cup { Record(Bug, {"color", "description"}),
               Record(Bug, {"name", "description"}),
               StrElem }

RegistrySources ==
    { [kind |-> "list", elems |-> e] : e \in SeqsUpTo(RegistryElems, MaxLabels) }
        \cup { [kind |-> "missing", elems |-> <<>>],
               [kind |-> "invalid", elems |-> <<>>],
               [kind |-> "number", elems |-> <<>>],
               [kind |-> "object", elems |-> <<>>],
               [kind |-> "object", elems |-> <<StrElem>>] }

\* the label file of the wizard specification: a prefix of this list
WizardFixture ==
    << Record(Bug, AllKeys), Record(P1Must, AllKeys), Record(SizeS, AllKeys),
       Record(LspA, AllKeys), Record(Help, AllKeys), Record(LspB, AllKeys),
       Record(TechDebt, AllKeys), Record(XMust, AllKeys),
       Record(P2Nice, AllKeys), Record(SizeM, AllKeys) >>

WizardSources ==
    { [kind |-> "list", elems |-> SubSeq(WizardFixture, 1, n)] :
          n \in { k \in 0..MaxWizardLabels : k <= Len(WizardFixture) } }
        \cup { [kind |-> "missing", elems |-> <<>>],
               [kind |-> "invalid", elems |-> <<>>] }

\* lines typed at the title prompt
TitleLines == { <<>>, <<" ">>, <<"t">>, <<" ","t"," ">>, <<"a"," ","b">> }

\* lines typed at a selection prompt
SelectLines ==
    { <<>>, <<" ">>, <<"x">>, <<"0">>, <<"1">>, <<"2">>, <<"3">>,
      <<"-","1">>, <<"+","2">>, <<" ","2"," ">>, <<"1","_">>,
      <<"1",",","2">>, <<"2",",","1">>, <<"1",",","1">>, <<"1",",","3">>,
      <<"3",",","1">>, <<"1",",","x">>, <<"x",",","1">>, <<"1",",">>, <<",">>,
      <<" ","1"," ",","," ","2"," ">>, <<"2",",","1",",","2">> }

\* lines typed at a yes/no prompt
ConfirmLines ==
    { <<>>, <<"y">>, <<"Y","e","s">>, <<"n">>, <<"m","a","y","b","e">>,
      <<" ","y","e","s">>, <<"y","e","s"," ">> }

\* what subprocess.run([editor, body_file], check=True) does: returns,
\* raises FileNotFoundError, CalledProcessError, or another OSError
EditorOutcomes == {"ok", "not_found", "nonzero", "os_error"}

\* what subprocess.run(cmd, check=True) does for gh: returns, raises
\* CalledProcessError, or FileNotFoundError (no gh program)
GhOutcomes == {"ok", "nonzero", "not_found"}

\* the name tempfile.NamedTemporaryFile gives the body file
TempName == <<"b",".","m","d">>

(***************************************************************************)
(* The state.                                                              *)
(***************************************************************************)
VARIABLES
    source,           \* the content behind json_path
    pc,               \* the position of the process
    labels,           \* LabelRegistry.labels
    raised,           \* the uncaught exception that ended the process
    message,          \* the last status line printed
    queried,          \* the argument of the last get_by_category call
    options,          \* the result of the last get_by_category call
    title,            \* IssueWizard.title
    selected_labels,  \* IssueWizard.selected_labels
    body_file,        \* IssueWizard.body_file
    line,             \* the line input() returned last
    flags_answer,     \* the result of _confirm in run
    submit_answer,    \* the result of _confirm in _submit
    body_exists,      \* whether the body temp file exists on disk
    editor_result,    \* how the editor run ended
    gh_calls,         \* the argument vectors gh was run with
    gh_result         \* how the gh run ended

vars == << source, pc, labels, raised, message, queried, options, title,
           selected_labels, body_file, line, flags_answer, submit_answer,
           body_exists, editor_result, gh_calls, gh_result >>

registry_vars == << labels, raised >>
wizard_vars == << title, selected_labels, body_file >>
prompt_vars == << line, flags_answer, submit_answer >>
process_vars == << body_exists, editor_result, gh_calls, gh_result >>
query_vars == << queried, options >>

InitState ==
    /\ pc = "load"
    /\ labels = <<>>
    /\ raised = "none"
    /\ message = NoMsg
    /\ queried = "none"
    /\ options = <<>>
    /\ title = <<>>
    /\ selected_labels = <<>>
    /\ body_file = <<>>
    /\ line = <<>>
    /\ flags_answer = "none"
    /\ submit_answer = "none"
    /\ body_exists = FALSE
    /\ editor_result = "none"
    /\ gh_calls = <<>>
    /\ gh_result = "none"

Init ==
    /\ source \in WizardSources
    /\ InitState

InitRegistry ==
    /\ source \in RegistrySources
    /\ InitState

(***************************************************************************)
(* LabelRegistry.__init__ and _load_labels.                                *)
(***************************************************************************)
LoadLabels ==
    /\ pc = "load"
    /\ IF source.kind = "missing"
       THEN /\ message' = Msg("Error: Labels file not found at", json_path)
            /\ pc' = "exit"
            /\ UNCHANGED registry_vars
       ELSE IF source.kind = "invalid"
       THEN /\ message' = Msg("Error: Invalid JSON in", json_path)
            /\ pc' = "exit"
            /\ UNCHANGED registry_vars
       ELSE IF source.kind = "number"
       THEN /\ raised' = "TypeError"
            /\ pc' = "traceback"
            /\ UNCHANGED << labels, message >>
       ELSE LET r == load_loop(source.elems, <<>>)
            IN  /\ labels' = r.labels
                /\ raised' = r.raised
                /\ pc' = IF r.raised = "none" THEN "init" ELSE "traceback"
                /\ UNCHANGED message
    /\ UNCHANGED << source, query_vars, wizard_vars, prompt_vars, process_vars >>

\* a caller of the constructed registry queries one category
\* (test_classification)
GetByCategory ==
    /\ pc = "init"
    /\ \E category \in LabelCategory :
           /\ queried' = category
           /\ options' = get_by_category(labels, category)
    /\ UNCHANGED << source, pc, registry_vars, message, wizard_vars,
                    prompt_vars, process_vars >>

\* IssueWizard.__init__, then run() up to its first prompt
IssueWizardInit ==
    /\ pc = "init"
    /\ pc' = "title"
    /\ title' = <<>>
    /\ selected_labels' = <<>>
    /\ body_file' = <<>>
    /\ UNCHANGED << source, registry_vars, message, query_vars, prompt_vars,
                    process_vars >>

NextRegistry ==
    \/ LoadLabels
    \/ GetByCategory
    \/ IssueWizardInit

SpecRegistry == InitRegistry /\ [][NextRegistry]_vars

(***************************************************************************)
(* IssueWizard.run: one action per line read and per child process run.    *)
(***************************************************************************)
\* step 1: one pass of "while not self.title"
MutTitleStepNoStrip ==
    /\ pc = "title"
    /\ \E l \in TitleLines :
           /\ line' = l
           /\ title' = l
           /\ pc' = IF l # <<>> THEN "type" ELSE "title"
    /\ UNCHANGED << source, registry_vars, message, query_vars,
                    selected_labels, body_file, flags_answer, submit_answer,
                    process_vars >>

TitleStep ==
    /\ pc = "title"
    /\ \E l \in TitleLines :
           /\ line' = l
           /\ title' = strip(l)
           /\ pc' = IF strip(l) # <<>> THEN "type" ELSE "title"
    /\ UNCHANGED << source, registry_vars, message, query_vars,
                    selected_labels, body_file, flags_answer, submit_answer,
                    process_vars >>

\* one pass of the loop of _select_single(name, category), called at `step`
SelectSingle(step, category, next) ==
    /\ pc = step
    /\ \E l \in SelectLines :
           LET opts == get_by_category(labels, category)
               r == select_single(opts, selected_labels, l)
           IN  /\ line' = l
               /\ queried' = category
               /\ options' = opts
               /\ selected_labels' = r.selected_labels
               /\ message' = r.message
               /\ pc' = IF r.done THEN next ELSE step
    /\ UNCHANGED << source, registry_vars, title, body_file, flags_answer,
                    submit_answer, process_vars >>

\* one pass of the loop of _select_multiple(name, category), called at `step`
SelectMultiple(step, category, next) ==
    /\ pc = step
    /\ \E l \in SelectLines :
           LET opts == get_by_category(labels, category)
               r == select_multiple(opts, selected_labels, l)
           IN  /\ line' = l
               /\ queried' = category
               /\ options' = opts
               /\ selected_labels' = r.selected_labels
               /\ message' = IF r.message = NoMsg THEN message ELSE r.message
               /\ pc' = IF r.done THEN next ELSE step
    /\ UNCHANGED << source, registry_vars, title, body_file, flags_answer,
                    submit_answer, process_vars >>

SelectType == SelectSingle("type", TYPE, "area")
MutSelectAreaFromFlags == SelectMultiple("area", FLAG, "priority")

SelectArea == SelectMultiple("area", AREA, "priority")
SelectPriority == SelectSingle("priority", PRIORITY, "size")
SelectSize == SelectSingle("size", SIZE, "flags_confirm")

\* step 6: if self._confirm("Add special flags ...")
MutConfirmFlagsAlways ==
    /\ pc = "flags_confirm"
    /\ \E l \in ConfirmLines :
           /\ line' = l
           /\ flags_answer' = IF confirm(l) THEN "yes" ELSE "no"
           /\ pc' = "flags"
    /\ UNCHANGED << source, registry_vars, message, query_vars, wizard_vars,
                    submit_answer, process_vars >>

ConfirmFlags ==
    /\ pc = "flags_confirm"
    /\ \E l \in ConfirmLines :
           /\ line' = l
           /\ flags_answer' = IF confirm(l) THEN "yes" ELSE "no"
           /\ pc' = IF confirm(l) THEN "flags" ELSE "body"
    /\ UNCHANGED << source, registry_vars, message, query_vars, wizard_vars,
                    submit_answer, process_vars >>

SelectFlags == SelectMultiple("flags", FLAG, "body")

\* _create_body up to the editor run: the temp file is written and closed
CreateBodyFile ==
    /\ pc = "body"
    /\ body_file' = TempName
    /\ body_exists' = TRUE
    /\ pc' = "editor"
    /\ UNCHANGED << source, registry_vars, message, query_vars, title,
                    selected_labels, prompt_vars, editor_result, gh_calls,
                    gh_result >>

\* _create_body: subprocess.run([editor, self.body_file], check=True) and
\* the handlers of its exceptions
MutRunEditorNoCleanup ==
    /\ pc = "editor"
    /\ \E outcome \in EditorOutcomes :
           /\ editor_result' = outcome
           /\ IF outcome = "ok"
              THEN /\ pc' = "submit"
                   /\ UNCHANGED << body_exists, message, raised >>
              ELSE IF outcome = "not_found"
              THEN /\ message' = Msg("Editor not found.", "")
                   /\ body_exists' = FALSE
                   /\ pc' = "exit"
                   /\ UNCHANGED raised
              ELSE IF outcome = "nonzero"
              THEN /\ message' = Msg("Editor exited with an error.", "")
                   /\ pc' = "exit"
                   /\ UNCHANGED << body_exists, raised >>
              ELSE /\ raised' = "OSError"
                   /\ pc' = "traceback"
                   /\ UNCHANGED << body_exists, message >>
    /\ UNCHANGED << source, labels, query_vars, wizard_vars, prompt_vars,
                    gh_calls, gh_result >>

MutRunEditorNoExit ==
    /\ pc = "editor"
    /\ \E outcome \in EditorOutcomes :
           /\ editor_result' = outcome
           /\ IF outcome = "ok"
              THEN /\ pc' = "submit"
                   /\ UNCHANGED << body_exists, message, raised >>
              ELSE IF outcome = "not_found"
              THEN /\ message' = Msg("Editor not found.", "")
                   /\ body_exists' = FALSE
                   /\ pc' = "submit"
                   /\ UNCHANGED raised
              ELSE IF outcome = "nonzero"
              THEN /\ message' = Msg("Editor exited with an error.", "")
                   /\ body_exists' = FALSE
                   /\ pc' = "submit"
                   /\ UNCHANGED raised
              ELSE /\ raised' = "OSError"
                   /\ pc' = "traceback"
                   /\ UNCHANGED << body_exists, message >>
    /\ UNCHANGED << source, labels, query_vars, wizard_vars, prompt_vars,
                    gh_calls, gh_result >>

RunEditor ==
    /\ pc = "editor"
    /\ \E outcome \in EditorOutcomes :
           /\ editor_result' = outcome
           /\ IF outcome = "ok"
              THEN /\ pc' = "submit"
                   /\ UNCHANGED << body_exists, message, raised >>
              ELSE IF outcome = "not_found"
              THEN /\ message' = Msg("Editor not found.", "")
                   /\ body_exists' = FALSE
                   /\ pc' = "exit"
                   /\ UNCHANGED raised
              ELSE IF outcome = "nonzero"
              THEN /\ message' = Msg("Editor exited with an error.", "")
                   /\ body_exists' = FALSE
                   /\ pc' = "exit"
                   /\ UNCHANGED raised
              ELSE /\ raised' = "OSError"
                   /\ pc' = "traceback"
                   /\ UNCHANGED << body_exists, message >>
    /\ UNCHANGED << source, labels, query_vars, wizard_vars, prompt_vars,
                    gh_calls, gh_result >>

MutSubmitConfirmEarlyUnlink ==
    /\ pc = "submit"
    /\ \E l \in ConfirmLines :
           /\ line' = l
           /\ IF confirm(l)
              THEN /\ submit_answer' = "yes"
                   /\ body_exists' = FALSE
                   /\ pc' = "gh"
                   /\ UNCHANGED message
              ELSE /\ submit_answer' = "no"
                   /\ message' = Msg("Cancelled.", "")
                   /\ body_exists' = FALSE
                   /\ pc' = "done"
    /\ UNCHANGED << source, registry_vars, query_vars, wizard_vars,
                    flags_answer, editor_result, gh_calls, gh_result >>

\* _submit up to the gh run: the preview, the confirmation, and the
\* cancellation branch
SubmitConfirm ==
    /\ pc = "submit"
    /\ \E l \in ConfirmLines :
           /\ line' = l
           /\ IF confirm(l)
              THEN /\ submit_answer' = "yes"
                   /\ pc' = "gh"
                   /\ UNCHANGED << body_exists, message >>
              ELSE /\ submit_answer' = "no"
                   /\ message' = Msg("Cancelled.", "")
                   /\ body_exists' = FALSE
                   /\ pc' = "done"
    /\ UNCHANGED << source, registry_vars, query_vars, wizard_vars,
                    flags_answer, editor_result, gh_calls, gh_result >>

\* _submit: subprocess.run(cmd, check=True) and what follows it
MutRunGhAlwaysUnlinks ==
    /\ pc = "gh"
    /\ gh_calls' = Append(gh_calls, build_cmd(title, body_file, selected_labels))
    /\ \E outcome \in GhOutcomes :
           /\ gh_result' = outcome
           /\ IF outcome = "ok"
              THEN /\ message' = Msg("Issue created successfully!", "")
                   /\ body_exists' = FALSE
                   /\ pc' = "done"
                   /\ UNCHANGED raised
              ELSE IF outcome = "nonzero"
              THEN /\ message' = Msg("Failed to create issue.", "")
                   /\ body_exists' = FALSE
                   /\ pc' = "done"
                   /\ UNCHANGED raised
              ELSE /\ raised' = "FileNotFoundError"
                   /\ pc' = "traceback"
                   /\ UNCHANGED << body_exists, message >>
    /\ UNCHANGED << source, labels, query_vars, wizard_vars, prompt_vars,
                    editor_result >>

RunGh ==
    /\ pc = "gh"
    /\ gh_calls' = Append(gh_calls, build_cmd(title, body_file, selected_labels))
    /\ \E outcome \in GhOutcomes :
           /\ gh_result' = outcome
           /\ IF outcome = "ok"
              THEN /\ message' = Msg("Issue created successfully!", "")
                   /\ body_exists' = FALSE
                   /\ pc' = "done"
                   /\ UNCHANGED raised
              ELSE IF outcome = "nonzero"
              THEN /\ message' = Msg("Failed to create issue.", "")
                   /\ pc' = "done"
                   /\ UNCHANGED << body_exists, raised >>
              ELSE /\ raised' = "FileNotFoundError"
                   /\ pc' = "traceback"
                   /\ UNCHANGED << body_exists, message >>
    /\ UNCHANGED << source, labels, query_vars, wizard_vars, prompt_vars,
                    editor_result >>

Next ==
    \/ LoadLabels
    \/ IssueWizardInit
    \/ TitleStep
    \/ SelectType
    \/ SelectArea
    \/ SelectPriority
    \/ SelectSize
    \/ ConfirmFlags
    \/ SelectFlags
    \/ CreateBodyFile
    \/ RunEditor
    \/ SubmitConfirm
    \/ RunGh

Spec == Init /\ [][Next]_vars

\* a step that leaves its prompt or ends a child process run
Advance == Next /\ pc' # pc

\* the runs in which no prompt is answered with rejected lines forever and
\* no child process runs forever
SpecLive == Init /\ [][Next]_vars /\ WF_vars(Advance)

(***************************************************************************)
(* Properties.                                                             *)
(***************************************************************************)
Range(f) == { f[i] : i \in DOMAIN f }

\* the rules of the classification chain, numbered in their order
Rule(n, name) ==
    CASE n = 1 -> startswith(name, LspPrefix)
      [] n = 2 -> startswith(name, SizePrefix)
      [] n = 3 -> /\ name # <<>>
                  /\ name[1] = "P"
                  /\ \E p \in PrioritySubstrings : contains(name, p)
      [] n = 4 -> name \in TypeNames
      [] n = 5 -> TRUE

RuleCategory == << AREA, SIZE, PRIORITY, TYPE, FLAG >>

FirstRule(name) ==
    CHOOSE n \in 1..5 : Rule(n, name) /\ \A m \in 1..(n - 1) : ~Rule(m, name)

\* C1: every label the registry loaded has the category of the first rule
\* of the chain lsp/ -> AREA, size/ -> SIZE, P + priority substring ->
\* PRIORITY, type literal -> TYPE, otherwise FLAG that its name matches.
C1_FirstMatchingRule ==
    \A i \in 1..Len(labels) :
        labels[i].category = RuleCategory[FirstRule(labels[i].name)]

\* an "lsp/" name containing "-must" is AREA, beside a PRIORITY, a TYPE and
\* a name with "-must" but no "P", which is FLAG
C1_Witness ==
    /\ \E i \in 1..Len(labels) :
           labels[i].name = LspMust /\ labels[i].category = AREA
    /\ \E i \in 1..Len(labels) :
           labels[i].name = P1Must /\ labels[i].category = PRIORITY
    /\ \E i \in 1..Len(labels) :
           labels[i].name = XMust /\ labels[i].category = FLAG

RECURSIVE SumLen(_, _)
SumLen(ls, cats) ==
    IF cats = {} THEN 0
    ELSE LET c == CHOOSE x \in cats : TRUE
         IN  Len(get_by_category(ls, c)) + SumLen(ls, cats \ {c})

\* the registry was constructed: LabelRegistry(json_path) returned
Constructed == pc \notin {"load", "exit", "traceback"}

\* C2: after a successful construction the five get_by_category results
\* partition the registry: every loaded label is in exactly one of them,
\* they hold loaded labels only, and their lengths add up to the number of
\* source records.
C2_CategoriesPartition ==
    Constructed =>
        /\ \A i \in 1..Len(labels) :
               Cardinality({ c \in LabelCategory :
                   labels[i] \in Range(get_by_category(labels, c)) }) = 1
        /\ \A c \in LabelCategory :
               Range(get_by_category(labels, c)) \subseteq Range(labels)
        /\ SumLen(labels, LabelCategory) = Len(source.elems)

C2_Witness ==
    /\ Constructed
    /\ Len(source.elems) = 3
    /\ Cardinality({ labels[i].category : i \in 1..Len(labels) }) = 3
    /\ \E i \in 1..Len(labels) : labels[i].category = FLAG

\* the positions of the registry's labels of one category, and the k-th
\* of them in registry order
CategoryIndices(c) == { i \in 1..Len(labels) : labels[i].category = c }

NthIndex(S, k) == CHOOSE i \in S : Cardinality({ j \in S : j <= i }) = k

\* C3: get_by_category(category) returns exactly the labels of that
\* category in source order, and the empty sequence, without an error, when
\* there is none.
C3_SubsequenceInOrder ==
    queried # "none" =>
        /\ Len(options) = Cardinality(CategoryIndices(queried))
        /\ \A k \in 1..Len(options) :
               options[k] = labels[NthIndex(CategoryIndices(queried), k)]
        /\ raised = "none"

\* [A(area), B(flag), C(area)]: the query for AREA returned [A, C]
C3_Witness ==
    /\ queried = AREA
    /\ Len(labels) = 3
    /\ labels[2].category = FLAG
    /\ Len(options) = 2
    /\ options[1] = labels[1]
    /\ options[2] = labels[3]
    /\ options[1] # options[2]

\* C4: every element of selected_labels is the name of a label of the
\* registry.
C4_SelectedFromRegistry ==
    \A i \in 1..Len(selected_labels) :
        \E j \in 1..Len(labels) : selected_labels[i] = labels[j].name

C4_Witness ==
    /\ pc = "done"
    /\ Len(selected_labels) >= 5

\* the category a selection step of run() prompts for, and the step that
\* follows it
StepCategory ==
    [type |-> TYPE, area |-> AREA, priority |-> PRIORITY, size |-> SIZE,
     flags |-> FLAG]

StepAfter ==
    [type |-> "area", area |-> "priority", priority |-> "size",
     size |-> "flags_confirm", flags |-> "body"]

\* the number of options the step at pc shows
OptionCount == Cardinality(CategoryIndices(StepCategory[pc]))

\* the name of the k-th option the step at pc shows
OptionName(k) == labels[NthIndex(CategoryIndices(StepCategory[pc]), k)].name

\* every comma-separated token of the line parses as an integer in 1..count
AllTokensValid(l, count) ==
    LET tokens == split(strip(l))
    IN  \A i \in 1..Len(tokens) :
            /\ int_ok(tokens[i])
            /\ 1 <= int(tokens[i])
            /\ int(tokens[i]) <= count

\* a step of _select_multiple on a non-empty line with an invalid token
\* changes neither selected_labels nor the step
C5_RejectedStep ==
    (/\ pc \in {"area", "flags"}
     /\ strip(line') # <<>>
     /\ ~AllTokensValid(line', OptionCount))
        => (selected_labels' = selected_labels /\ pc' = pc)

\* C5: in _select_multiple a non-empty line with a token that does not parse
\* or is out of range leaves selected_labels as it was and the step prompts
\* again; a non-empty line ends the step only if every token is valid.
C5_RejectedInFull == [][C5_RejectedStep]_vars

\* "1,3" typed against two AREA options after one TYPE was chosen: the
\* valid 1 was not appended and the step is still AREA
C5_Witness ==
    /\ pc = "area"
    /\ line = <<"1",",","3">>
    /\ Cardinality(CategoryIndices(AREA)) = 2
    /\ Len(selected_labels) = 1
    /\ message = Msg("Invalid selection, try again.", "")

\* a step of _select_single: accepted and appended, or rejected and retried
C6_SingleSelectStep ==
    pc \in {"type", "priority", "size"} =>
        IF /\ int_ok(line')
           /\ 1 <= int(line')
           /\ int(line') <= OptionCount
        THEN /\ selected_labels' =
                    Append(selected_labels, OptionName(int(line')))
             /\ title' = title
             /\ pc' = StepAfter[pc]
        ELSE /\ selected_labels' = selected_labels
             /\ title' = title
             /\ pc' = pc

\* C6: in _select_single a line that is no integer in 1..count changes
\* neither selected_labels nor title and the step prompts again; an
\* in-range integer k appends the name of the k-th option, and nothing
\* else, and ends the step.
C6_SingleSelect == [][C6_SingleSelectStep]_vars

\* the second of two TYPE options was chosen after "abc"-like input
C6_Witness ==
    /\ pc = "area"
    /\ line = <<"2">>
    /\ Cardinality(CategoryIndices(TYPE)) = 2
    /\ selected_labels = <<TechDebt>>

\* the line, trimmed and lowercased, starts with "y"
TrimmedAffirmative(l) ==
    LET t == lower(strip(l)) IN t # <<>> /\ t[1] = "y"

\* a step of _confirm answers by the trimmed, lowercased line
C7_ConfirmStep ==
    /\ pc = "flags_confirm" =>
           /\ (flags_answer' = "yes") <=> TrimmedAffirmative(line')
           /\ pc' # pc
    /\ pc = "submit" =>
           /\ (submit_answer' = "yes") <=> TrimmedAffirmative(line')
           /\ pc' # pc

\* C7: _confirm is affirmative exactly when the line, trimmed and
\* lowercased, starts with "y" (so " yes" is affirmative), and it reads one
\* line without prompting again.
C7_ConfirmTrimmed == [][C7_ConfirmStep]_vars

Malformed ==
    \/ source.kind \in {"invalid", "number", "object"}
    \/ /\ source.kind = "list"
       /\ \E i \in 1..Len(source.elems) :
              \/ source.elems[i].type # "dict"
              \/ ~(AllKeys \subseteq source.elems[i].keys)

\* C9: construction from a missing source ends the process with the
\* not-found diagnostic, from a malformed source with the malformed
\* diagnostic, each naming the path, and no registry built from such a
\* source reaches a wizard.
C9_FatalDiagnostics ==
    pc # "load" =>
        /\ source.kind = "missing" =>
               /\ pc = "exit"
               /\ message = Msg("Error: Labels file not found at", json_path)
        /\ Malformed =>
               /\ pc = "exit"
               /\ message = Msg("Error: Invalid JSON in", json_path)

\* C10: after an editor failure (not found, non-zero exit) the run is over:
\* the review step is not entered, no final confirmation is read and gh is
\* not run.
C10_EditorFailureAborts ==
    editor_result \in {"not_found", "nonzero"} =>
        /\ pc = "exit"
        /\ submit_answer = "none"
        /\ gh_calls = <<>>
        /\ gh_result = "none"

C10_Witness ==
    /\ editor_result = "not_found"
    /\ pc = "exit"
    /\ message = Msg("Editor not found.", "")

\* C11: the argument vector gh is run with is the create-issue command, the
\* title, the body file path, and then one "--label" flag and value for
\* each element of selected_labels, in order, repetitions included.
C11_ArgumentVector ==
    \A c \in 1..Len(gh_calls) :
        LET cmd == gh_calls[c]
        IN  /\ Len(cmd) = 7 + 2 * Len(selected_labels)
            /\ SubSeq(cmd, 1, 3) =
                   << <<"g","h">>, <<"i","s","s","u","e">>,
                      <<"c","r","e","a","t","e">> >>
            /\ cmd[4] = <<"-","-","t","i","t","l","e">>
            /\ cmd[5] = title
            /\ cmd[6] = <<"-","-","b","o","d","y","-","f","i","l","e">>
            /\ cmd[7] = body_file
            /\ \A i \in 1..Len(selected_labels) :
                   /\ cmd[6 + 2 * i] = <<"-","-","l","a","b","e","l">>
                   /\ cmd[7 + 2 * i] = selected_labels[i]

\* gh was run for a selection that names one AREA twice
C11_Witness ==
    /\ Len(gh_calls) = 1
    /\ Len(selected_labels) >= 5
    /\ \E i, j \in 1..Len(selected_labels) :
           i # j /\ selected_labels[i] = selected_labels[j]
    /\ title = <<"a"," ","b">>

\* the step of run() a position belongs to, numbered in the order of run():
\* 0 before run(), 10 after the run ended
StepRank ==
    [load |-> 0, init |-> 0, title |-> 1, type |-> 2, area |-> 3,
     priority |-> 4, size |-> 5, flags_confirm |-> 6, flags |-> 7,
     body |-> 8, editor |-> 8, submit |-> 9, gh |-> 9,
     done |-> 10, exit |-> 10, traceback |-> 10]

\* a step of the run stays in its step of run(), enters the next one (the
\* FLAG selection only after an affirmative answer, the body step from the
\* flag confirmation only after a negative one), or ends the run
C12_OrderStep ==
    /\ StepRank[pc'] >= StepRank[pc]
    /\ StepRank[pc'] > StepRank[pc] =>
           \/ StepRank[pc'] = StepRank[pc] + 1 /\ StepRank[pc'] \notin {7, 10}
           \/ StepRank[pc] = 6 /\ StepRank[pc'] = 7 /\ flags_answer' = "yes"
           \/ StepRank[pc] = 6 /\ StepRank[pc'] = 8 /\ flags_answer' = "no"
           \/ StepRank[pc'] = 10 /\ StepRank[pc] \in {0, 8, 9}

\* C12: a run executes title, TYPE, AREA, PRIORITY, SIZE, flag
\* confirmation, FLAG (only after an affirmative answer), body, review and
\* submit in this order: a step is entered only from its predecessor, and
\* never again once it was left.
C12_FixedStepOrder == [][C12_OrderStep]_vars

\* the review step was reached through the FLAG selection
C12_Witness ==
    /\ pc = "submit"
    /\ flags_answer = "yes"
    /\ Len(selected_labels) >= 4
    /\ editor_result = "ok"

\* a step of _select_multiple on a line it accepts appends the names of
\* the options listed, token by token
C13_AcceptedStep ==
    (/\ pc \in {"area", "flags"}
     /\ strip(line') # <<>>
     /\ AllTokensValid(line', OptionCount))
        => LET tokens == split(strip(line'))
           IN  /\ Len(selected_labels') = Len(selected_labels) + Len(tokens)
               /\ SubSeq(selected_labels', 1, Len(selected_labels))
                      = selected_labels
               /\ \A k \in 1..Len(tokens) :
                      selected_labels'[Len(selected_labels) + k]
                          = OptionName(int(tokens[k]))
               /\ pc' = StepAfter[pc]

\* C13: when _select_multiple accepts a line with indices i1..in it appends
\* exactly the names of options i1..in in the order typed, a repeated index
\* as a repeated name, after the names selected before.
C13_AppendsInTypedOrder == [][C13_AcceptedStep]_vars

\* "2,1" typed at the AREA step: the second area, then the first
C13_Witness ==
    /\ pc = "priority"
    /\ line = <<"2",",","1">>
    /\ Len(selected_labels) = 3
    /\ selected_labels[2] = LspB
    /\ selected_labels[3] = LspA

\* a step of _select_multiple on a blank line ends the step and changes
\* neither the selection nor the status line
C14_SkipStep ==
    (pc \in {"area", "flags"} /\ strip(line') = <<>>)
        => /\ selected_labels' = selected_labels
           /\ message' = message
           /\ pc' = StepAfter[pc]

\* C14: in _select_multiple a line that is empty after trimming ends the
\* step at once with no selection: selected_labels is unchanged, no error
\* is printed and no prompt follows, also when the category has no options.
C14_EmptyLineSkips == [][C14_SkipStep]_vars

\* " " typed at the AREA step of a registry without AREA labels
C14_Witness ==
    /\ pc = "priority"
    /\ line = <<" ">>
    /\ CategoryIndices(AREA) = {}
    /\ Len(selected_labels) = 1
    /\ message = Msg("Selected", "")

\* a str that is not empty and neither starts nor ends with whitespace
TrimmedNonEmpty(t) == t # <<>> /\ ~IsSpace(t[1]) /\ ~IsSpace(t[Len(t)])

\* a step at the title prompt stays there on a blank line and leaves it
\* with a trimmed title; a step after it keeps the title
C15_TitleStepOk ==
    /\ (pc = "title" /\ strip(line') = <<>>) => pc' = "title"
    /\ (pc = "title" /\ pc' # "title") => TrimmedNonEmpty(title')
    /\ StepRank[pc] >= 2 => (TrimmedNonEmpty(title) /\ title' = title)

\* C15: title capture prompts again while the trimmed line is empty; once
\* step 1 is over, title is a non-empty string without leading or trailing
\* whitespace and no later step changes it.
C15_TitleSetOnce == [][C15_TitleStepOk]_vars

\* " t " was typed: the title is "t"
C15_Witness ==
    /\ pc = "type"
    /\ line = <<" ","t"," ">>
    /\ title = <<"t">>

\* C16: when gh exits non-zero after an affirmative final confirmation the
\* failure is printed and the run is over: gh was run once, title and
\* selected_labels are those it was run with, and the body temp file is
\* still there.
C16_SubmissionFailed ==
    gh_result = "nonzero" =>
        /\ pc = "done"
        /\ submit_answer = "yes"
        /\ message = Msg("Failed to create issue.", "")
        /\ Len(gh_calls) = 1
        /\ gh_calls[1][5] = title
        /\ Len(gh_calls[1]) = 7 + 2 * Len(selected_labels)
        /\ \A i \in 1..Len(selected_labels) :
               gh_calls[1][7 + 2 * i] = selected_labels[i]
        /\ body_exists

C16_Witness ==
    /\ gh_result = "nonzero"
    /\ pc = "done"
    /\ body_exists
    /\ Len(selected_labels) >= 3

\* the category of the registry's label of a name
CategoryOfName(name) ==
    LET i == CHOOSE j \in 1..Len(labels) : labels[j].name = name
    IN  labels[i].category

\* C17: at the review step selected_labels is one TYPE name, then zero or
\* more AREA names, then one PRIORITY name, then one SIZE name, then zero
\* or more FLAG names, and no FLAG name after a negative flag confirmation.
C17_SelectionShape ==
    pc \in {"submit", "gh"} =>
        \E a \in 0..Len(selected_labels) :
            /\ Len(selected_labels) >= a + 3
            /\ CategoryOfName(selected_labels[1]) = TYPE
            /\ \A i \in 2..(a + 1) :
                   CategoryOfName(selected_labels[i]) = AREA
            /\ CategoryOfName(selected_labels[a + 2]) = PRIORITY
            /\ CategoryOfName(selected_labels[a + 3]) = SIZE
            /\ \A i \in (a + 4)..Len(selected_labels) :
                   CategoryOfName(selected_labels[i]) = FLAG
            /\ flags_answer = "no" => Len(selected_labels) = a + 3

\* one TYPE, two AREA, one PRIORITY, one SIZE and two FLAG names
C17_Witness ==
    /\ pc = "submit"
    /\ flags_answer = "yes"
    /\ Len(selected_labels) = 7
    /\ CategoryOfName(selected_labels[3]) = AREA
    /\ CategoryOfName(selected_labels[7]) = FLAG

\* a single-select step ends on an in-range integer and, when its category
\* is empty, on no line at all
C18_SingleStep ==
    pc \in {"type", "priority", "size"} =>
        /\ (int_ok(line') /\ 1 <= int(line') /\ int(line') <= OptionCount)
               => pc' = StepAfter[pc]
        /\ OptionCount = 0 => pc' = pc

\* the registry has a TYPE, a PRIORITY and a SIZE label
SinglesNonEmpty ==
    \A c \in {TYPE, PRIORITY, SIZE} : CategoryIndices(c) # {}

C19_GhStep ==
    /\ gh_calls' # gh_calls =>
           /\ gh_calls = <<>>
           /\ Len(gh_calls') = 1
           /\ editor_result = "ok"
           /\ submit_answer = "yes"
           /\ body_exists
    /\ submit_answer' = "no" => gh_calls' = <<>>

\* C19: gh is run at most once in a run, only after the editor has exited
\* successfully and the final confirmation was affirmative, and with the
\* body temp file still in place; after a negative final confirmation it
\* is never run.
C19_GhInvokedOnce == [][C19_GhStep]_vars

C19_Witness ==
    /\ Len(gh_calls) = 1
    /\ gh_result = "ok"
    /\ editor_result = "ok"
    /\ submit_answer = "yes"
    /\ pc = "done"

====
